---- MODULE Spec2Model ----
(***************************************************************************)
(* The IPv6 fragment extension header codec of etherparse.                 *)
(*                                                                         *)
(* Two generations of the header live in the repository:                   *)
(*   etherparse/src/internet/ipv6_fragment_header.rs   (current)           *)
(*   src/internet/ipv6_fragment.rs                     (legacy)            *)
(* The current header entity decodes through Ipv6FragmentHeaderSlice; the  *)
(* field accessors of the slice view are those of the legacy file.         *)
(***************************************************************************)
EXTENDS Integers, Sequences, FiniteSets, TLC

\* hdr   the header entity the caller holds (NoHeader when it holds none)
\* data  the bytes of the caller's buffer: the slice that is decoded, the
\*       content of the stream that is read, the bytes a writer has written
\* room  the number of bytes the writer can hold (Unbounded for a Vec)
\* pos   the position of the stream cursor over data (NoStream when data is
\*       used as a slice and no stream is open over it)
\* lim   the LimitedReader wrapped around the stream, when there is one
\* res   the outcome of the last operation
VARIABLES hdr, data, room, pos, lim, res, error

vars == <<hdr, data, room, pos, lim, res, error>>

-----------------------------------------------------------------------------
(* Bounds of the model *)

\* longest run of bytes that follows the header in a buffer (dummy_data)
MaxDummy == 2

\* most bytes a writer holds before a header is written to it
MaxPrefix == 1

\* the largest length an ipv4 slice error reports
MaxErrLen == 4

\* the largest version number an ipv4 content error reports
MaxVersion == 15

-----------------------------------------------------------------------------
(* Program constants *)

\* Ipv6FragmentHeader::LEN
LEN == 8

\* IpFragOffset::MAX_U16, the largest 13 bit value
MAX_U16 == 8191

-----------------------------------------------------------------------------
(* u8 / u16 / u32 arithmetic as Rust computes it *)

RECURSIVE BitAnd(_, _)
\* a & b
BitAnd(a, b) ==
    IF a = 0 \/ b = 0 THEN 0
    ELSE (a % 2) * (b % 2) + 2 * BitAnd(a \div 2, b \div 2)

RECURSIVE BitOr(_, _)
\* a | b
BitOr(a, b) ==
    IF a = 0 THEN b
    ELSE IF b = 0 THEN a
    ELSE (IF (a % 2) + (b % 2) > 0 THEN 1 ELSE 0) + 2 * BitOr(a \div 2, b \div 2)

\* a << n on a u8: the bits shifted past bit 7 are lost
Shl8(a, n) == (a * (2 ^ n)) % 256

\* a >> n on a u8
Shr8(a, n) == a \div (2 ^ n)

\* u16::to_be_bytes
u16_to_be_bytes(v) == << (v \div 256) % 256, v % 256 >>

\* u16::from_be_bytes
u16_from_be_bytes(b) == b[1] * 256 + b[2]

\* a u32, held as its two 16 bit halves (value = hi * 65536 + lo) since the
\* integers of the model checker stop short of 2^32
U32(hi, lo) == [hi |-> hi, lo |-> lo]

\* u32::to_be_bytes
u32_to_be_bytes(v) ==
    << (v.hi \div 256) % 256, v.hi % 256, (v.lo \div 256) % 256, v.lo % 256 >>

\* u32::from_be_bytes
u32_from_be_bytes(b) == U32(b[1] * 256 + b[2], b[3] * 256 + b[4])

\* &slice[from..], with from a 0 based index
SliceFrom(s, from) == SubSeq(s, from + 1, Len(s))

\* &slice[..to], with to a 0 based exclusive index
SliceTo(s, to) == SubSeq(s, 1, to)

-----------------------------------------------------------------------------
(* Values *)

\* struct Ipv6FragmentHeader
Header(nh, fo, mf, id) ==
    [next_header |-> nh, fragment_offset |-> fo, more_fragments |-> mf,
     identification |-> id]

\* the absence of a header in a result
NoHeader == Header(-1, -1, FALSE, U32(-1, -1))

\* an error value; the fields a kind of error does not carry are -1 / "none"
Error(kind, required_len, len, len_source, layer, layer_start_offset, io_kind) ==
    [kind |-> kind, required_len |-> required_len, len |-> len,
     len_source |-> len_source, layer |-> layer,
     layer_start_offset |-> layer_start_offset, io_kind |-> io_kind]

\* the absence of an error in a result
NoError == Error("none", -1, -1, "none", "none", -1, "none")

\* err::LenError
LenError(required_len, len, len_source, layer, layer_start_offset) ==
    Error("LenError", required_len, len, len_source, layer, layer_start_offset, "none")

\* std::io::Error of the given kind
IoError(io_kind) == Error("Io", -1, -1, "none", "none", -1, io_kind)

\* legacy ReadError::UnexpectedEndOfSlice(required_len)
UnexpectedEndOfSlice(required_len) ==
    Error("UnexpectedEndOfSlice", required_len, -1, "none", "none", -1, "none")

\* legacy WriteError::ValueError(U16TooLarge) for the fragment offset
ValueErrorU16TooLarge == Error("ValueError", -1, -1, "none", "none", -1, "none")

-----------------------------------------------------------------------------
(* err::ipv4::HeaderSliceError *)

\* err::Layer, the layers the sources name
Layers == {"Ipv4Header", "Ipv6FragHeader"}

\* err::UnexpectedEndOfSliceError
UnexpectedEndOfSliceError(expected_min, actual, layer) ==
    [expected_min |-> expected_min, actual |-> actual, layer |-> layer]

NoUnexpectedEndOfSliceError == UnexpectedEndOfSliceError(-1, -1, "none")

\* err::ipv4::HeaderError::UnexpectedVersion
UnexpectedVersion(version_number) ==
    [kind |-> "UnexpectedVersion", version_number |-> version_number]

NoHeaderError == [kind |-> "none", version_number |-> -1]

\* HeaderSliceError::UnexpectedEndOfSlice(e)
HeaderSliceError_UnexpectedEndOfSlice(e) ==
    [variant |-> "UnexpectedEndOfSlice", slice |-> e, content |-> NoHeaderError]

\* HeaderSliceError::Content(e)
HeaderSliceError_Content(e) ==
    [variant |-> "Content", slice |-> NoUnexpectedEndOfSliceError, content |-> e]

NoHeaderSliceError ==
    [variant |-> "none", slice |-> NoUnexpectedEndOfSliceError,
     content |-> NoHeaderError]

\* Option<&dyn Error>
None == [some |-> FALSE, cause |-> NoHeaderError]
Some(e) == [some |-> TRUE, cause |-> e]

\* source that chains no error
source_leaf(e) == None

\* <HeaderSliceError as std::error::Error>::source
source(e) ==
    CASE e.variant = "UnexpectedEndOfSlice" -> None
      [] e.variant = "Content" -> Some(e.content)

\* what the caller holds of an ipv4 slice error: the value, and what
\* source() returned once it has been called
Held(value, called, cause) ==
    [value |-> value, called |-> called, cause |-> cause]

NoHeld == Held(NoHeaderSliceError, FALSE, None)

-----------------------------------------------------------------------------
(* Header entity: pure operations *)

\* Ipv6FragmentHeader::new
new(next_header, fragment_offset, more_fragments, identification) ==
    Header(next_header, fragment_offset, more_fragments, identification)

\* Ipv6FragmentHeader::header_len
header_len(h) == LEN

\* is_fragmenting_payload with the two conditions joined by && for ||
is_fragmenting_payload_and(h) == h.more_fragments /\ (0 # h.fragment_offset)

\* Ipv6FragmentHeader::is_fragmenting_payload
is_fragmenting_payload(h) == h.more_fragments \/ (0 # h.fragment_offset)

\* to_bytes with the low offset byte masked to 6 bits for 5 in byte 3
to_bytes_wide_mask(h) ==
    LET fo_be == u16_to_be_bytes(h.fragment_offset)
        id_be == u32_to_be_bytes(h.identification)
    IN << h.next_header,
          0,
          BitOr(BitAnd(Shl8(fo_be[1], 3), 248), BitAnd(Shr8(fo_be[2], 5), 7)),
          BitOr(BitAnd(fo_be[2], 63), IF h.more_fragments THEN 128 ELSE 0),
          id_be[1], id_be[2], id_be[3], id_be[4] >>

\* to_bytes with the identification in little endian order
to_bytes_id_le(h) ==
    LET fo_be == u16_to_be_bytes(h.fragment_offset)
        id_be == u32_to_be_bytes(h.identification)
    IN << h.next_header,
          0,
          BitOr(BitAnd(Shl8(fo_be[1], 3), 248), BitAnd(Shr8(fo_be[2], 5), 7)),
          BitOr(BitAnd(fo_be[2], 31), IF h.more_fragments THEN 128 ELSE 0),
          id_be[4], id_be[3], id_be[2], id_be[1] >>

\* Ipv6FragmentHeader::to_bytes
to_bytes(h) ==
    LET fo_be == u16_to_be_bytes(h.fragment_offset)
        id_be == u32_to_be_bytes(h.identification)
    IN << h.next_header,
          0,
          BitOr(BitAnd(Shl8(fo_be[1], 3), 248), BitAnd(Shr8(fo_be[2], 5), 7)),
          BitOr(BitAnd(fo_be[2], 31), IF h.more_fragments THEN 128 ELSE 0),
          id_be[1], id_be[2], id_be[3], id_be[4] >>

-----------------------------------------------------------------------------
(* Borrowed slice view *)

\* Ipv6FragmentHeaderSlice::next_header
Slice_next_header(s) == s[1]

\* fragment_offset with the high byte masked to 4 bits for 5
Slice_fragment_offset_narrow(s) ==
    u16_from_be_bytes(<< BitAnd(Shr8(s[3], 3), 15),
                         BitOr(BitAnd(Shl8(s[3], 5), 224), BitAnd(s[4], 31)) >>)

\* Ipv6FragmentHeaderSlice::fragment_offset
Slice_fragment_offset(s) ==
    u16_from_be_bytes(<< BitAnd(Shr8(s[3], 3), 31),
                         BitOr(BitAnd(Shl8(s[3], 5), 224), BitAnd(s[4], 31)) >>)

\* more_fragments with a mask that takes in the reserved bit 6
Slice_more_fragments_wide(s) == 0 # BitAnd(s[4], 192)

\* Ipv6FragmentHeaderSlice::more_fragments
Slice_more_fragments(s) == 0 # BitAnd(s[4], 128)

\* is_fragmenting_payload of the view with byte 3 tested whole
Slice_is_fragmenting_payload_unmasked(s) == 0 # s[3] \/ 0 # s[4]

\* Ipv6FragmentHeaderSlice::is_fragmenting_payload
Slice_is_fragmenting_payload(s) == 0 # s[3] \/ 0 # BitAnd(s[4], 159)

\* identification read in little endian byte order
Slice_identification_le(s) == U32(s[8] * 256 + s[7], s[6] * 256 + s[5])

\* Ipv6FragmentHeaderSlice::identification
Slice_identification(s) == u32_from_be_bytes(SubSeq(s, 5, 8))

\* Ipv6FragmentHeaderSlice::to_header
Slice_to_header(s) ==
    Header(Slice_next_header(s), Slice_fragment_offset(s),
           Slice_more_fragments(s), Slice_identification(s))

\* Ipv6FragmentHeaderSlice::slice
Slice_slice(s) == s

\* the legacy constructor keeping the whole slice in the view
Slice_from_slice_whole(slice) ==
    IF Len(slice) < 8
    THEN [ok |-> FALSE, slice |-> << >>, err |-> UnexpectedEndOfSlice(8)]
    ELSE [ok |-> TRUE, slice |-> slice, err |-> NoError]

\* legacy Ipv6FragmentHeaderSlice::from_slice: the error carries only the
\* required length
Slice_from_slice_legacy(slice) ==
    IF Len(slice) < 8
    THEN [ok |-> FALSE, slice |-> << >>, err |-> UnexpectedEndOfSlice(8)]
    ELSE [ok |-> TRUE, slice |-> SliceTo(slice, 8), err |-> NoError]

\* current Ipv6FragmentHeaderSlice::from_slice: the same length check, with
\* the layer tagged length error
Slice_from_slice(slice) ==
    IF Len(slice) < LEN
    THEN [ok |-> FALSE, slice |-> << >>,
          err |-> LenError(LEN, Len(slice), "Slice", "Ipv6FragHeader", 0)]
    ELSE [ok |-> TRUE, slice |-> SliceTo(slice, LEN), err |-> NoError]

-----------------------------------------------------------------------------
(* Results of the operations; res holds the outcome of the last one *)

Result(op, ok, header, rest, bytes, flag, err, start, arg) ==
    [op |-> op, ok |-> ok, header |-> header, rest |-> rest, bytes |-> bytes,
     flag |-> flag, err |-> err, start |-> start, arg |-> arg]

NoResult == Result("none", FALSE, NoHeader, << >>, << >>, FALSE, NoError, 0, 0)

\* from_slice going through the legacy constructor of the view, whose error
\* carries only the required length
from_slice_legacy_error(slice) ==
    LET s == Slice_from_slice_legacy(slice)
    IN IF ~s.ok
       THEN [ok |-> FALSE, header |-> NoHeader, rest |-> << >>, err |-> s.err]
       ELSE [ok |-> TRUE, header |-> Slice_to_header(s.slice),
             rest |-> SliceFrom(slice, 8), err |-> NoError]

\* from_slice with the rest taken from index 7 for 8
from_slice_rest_early(slice) ==
    LET s == Slice_from_slice(slice)
    IN IF ~s.ok
       THEN [ok |-> FALSE, header |-> NoHeader, rest |-> << >>, err |-> s.err]
       ELSE [ok |-> TRUE, header |-> Slice_to_header(s.slice),
             rest |-> SliceFrom(slice, 7), err |-> NoError]

\* Ipv6FragmentHeader::from_slice
from_slice(slice) ==
    LET s == Slice_from_slice(slice)
    IN IF ~s.ok
       THEN [ok |-> FALSE, header |-> NoHeader, rest |-> << >>, err |-> s.err]
       ELSE [ok |-> TRUE, header |-> Slice_to_header(s.slice),
             rest |-> SliceFrom(slice, 8), err |-> NoError]

\* legacy Ipv6FragmentHeader::read_from_slice
read_from_slice(slice) ==
    LET s == Slice_from_slice_legacy(slice)
    IN IF ~s.ok
       THEN [ok |-> FALSE, header |-> NoHeader, rest |-> << >>, err |-> s.err]
       ELSE [ok |-> TRUE, header |-> Slice_to_header(s.slice),
             rest |-> SliceFrom(slice, 8), err |-> NoError]

-----------------------------------------------------------------------------
(* Streams *)

\* the capacity of a writer that grows on demand (Vec<u8>)
Unbounded == -1

\* std::io::Read::read_exact on a cursor at position p over the bytes d: the
\* end of the stream before n bytes were read is an UnexpectedEof error
read_exact(d, p, n) ==
    IF Len(d) - p < n
    THEN [ok |-> FALSE, bytes |-> << >>, pos |-> p,
          err |-> IoError("UnexpectedEof")]
    ELSE [ok |-> TRUE, bytes |-> SubSeq(d, p + 1, p + n), pos |-> p + n,
          err |-> NoError]

\* std::io::Write::write_all on a writer holding w with capacity cap: what
\* fits is written, and a writer that takes no more bytes fails the call
write_all(w, cap, bytes) ==
    IF cap = Unbounded \/ Len(w) + Len(bytes) <= cap
    THEN [ok |-> TRUE, buf |-> w \o bytes, err |-> NoError]
    ELSE [ok |-> FALSE, buf |-> w \o SubSeq(bytes, 1, cap - Len(w)),
          err |-> IoError("WriteZero")]

\* read_decode with byte 2 taken whole as the high byte of the offset
read_decode_high_unshifted(buffer) ==
    Header(buffer[1],
           u16_from_be_bytes(<< buffer[3],
                                BitOr(BitAnd(Shl8(buffer[3], 5), 224),
                                      BitAnd(buffer[4], 31)) >>),
           0 # BitAnd(buffer[4], 128),
           u32_from_be_bytes(SubSeq(buffer, 5, 8)))

\* the header fields extracted from the 8 bytes read from a stream
\* (the body of read and read_limited after the read_exact)
read_decode(buffer) ==
    Header(buffer[1],
           u16_from_be_bytes(<< BitAnd(Shr8(buffer[3], 3), 31),
                                BitOr(BitAnd(Shl8(buffer[3], 5), 224),
                                      BitAnd(buffer[4], 31)) >>),
           0 # BitAnd(buffer[4], 128),
           u32_from_be_bytes(SubSeq(buffer, 5, 8)))

\* read with a plain read for read_exact: a short read is taken as a full
\* one, the bytes that did not arrive left at 0
read_short_ok(d, p) ==
    LET r == read_exact(d, p, 8)
        got == SliceFrom(d, p)
        buffer == [i \in 1..8 |-> IF i <= Len(got) THEN got[i] ELSE 0]
    IN IF ~r.ok
       THEN [ok |-> TRUE, header |-> read_decode(buffer), err |-> NoError,
             pos |-> Len(d)]
       ELSE [ok |-> TRUE, header |-> read_decode(r.bytes), err |-> NoError,
             pos |-> r.pos]

\* Ipv6FragmentHeader::read: one exact read of 8 bytes
read(d, p) ==
    LET r == read_exact(d, p, 8)
    IN IF ~r.ok
       THEN [ok |-> FALSE, header |-> NoHeader, err |-> r.err, pos |-> r.pos]
       ELSE [ok |-> TRUE, header |-> read_decode(r.bytes), err |-> NoError,
             pos |-> r.pos]

\* the legacy read without the read of the reserved byte
legacy_read_reserved_unread(d, p) ==
    LET r1 == read_exact(d, p, 1)
        r3 == read_exact(d, r1.pos, 2)
        r4 == read_exact(d, r3.pos, 4)
        failed(r) == [ok |-> FALSE, header |-> NoHeader, err |-> r.err,
                      pos |-> r.pos]
    IN IF ~r1.ok THEN failed(r1)
       ELSE IF ~r3.ok THEN failed(r3)
       ELSE IF ~r4.ok THEN failed(r4)
       ELSE [ok |-> TRUE,
             header |-> Header(
                 r1.bytes[1],
                 u16_from_be_bytes(<< BitAnd(Shr8(r3.bytes[1], 3), 31),
                                      BitOr(BitAnd(Shl8(r3.bytes[1], 5), 224),
                                            BitAnd(r3.bytes[2], 31)) >>),
                 0 # BitAnd(r3.bytes[2], 128),
                 u32_from_be_bytes(r4.bytes)),
             err |-> NoError, pos |-> r4.pos]

\* legacy Ipv6FragmentHeader::read: read_u8, read_u8, read_exact of 2 bytes,
\* read_u32; the first read that falls short ends the call
legacy_read(d, p) ==
    LET r1 == read_exact(d, p, 1)
        r2 == read_exact(d, r1.pos, 1)
        r3 == read_exact(d, r2.pos, 2)
        r4 == read_exact(d, r3.pos, 4)
        failed(r) == [ok |-> FALSE, header |-> NoHeader, err |-> r.err,
                      pos |-> r.pos]
    IN IF ~r1.ok THEN failed(r1)
       ELSE IF ~r2.ok THEN failed(r2)
       ELSE IF ~r3.ok THEN failed(r3)
       ELSE IF ~r4.ok THEN failed(r4)
       ELSE [ok |-> TRUE,
             header |-> Header(
                 r1.bytes[1],
                 u16_from_be_bytes(<< BitAnd(Shr8(r3.bytes[1], 3), 31),
                                      BitOr(BitAnd(Shl8(r3.bytes[1], 5), 224),
                                            BitAnd(r3.bytes[2], 31)) >>),
                 0 # BitAnd(r3.bytes[2], 128),
                 u32_from_be_bytes(r4.bytes)),
             err |-> NoError, pos |-> r4.pos]

\* io::LimitedReader
LimitedReader(active, max_len, len_source, read_len, layer, layer_offset) ==
    [active |-> active, max_len |-> max_len, len_source |-> len_source,
     read_len |-> read_len, layer |-> layer, layer_offset |-> layer_offset]

\* no LimitedReader is wrapped around the stream
NoLimitedReader == LimitedReader(FALSE, 0, "none", 0, "none", 0)

\* LimitedReader::start_layer
start_layer(l, layer) ==
    [l EXCEPT !.layer_offset = @ + l.read_len,
              !.max_len = @ - l.read_len,
              !.read_len = 0,
              !.layer = layer]

\* LimitedReader::read_exact: a read past the limit is a length error of the
\* current layer, a short read of the wrapped stream its I/O error
limited_read_exact(l, d, p, n) ==
    IF l.max_len - l.read_len < n
    THEN [ok |-> FALSE, bytes |-> << >>, pos |-> p, lim |-> l,
          err |-> LenError(l.read_len + n, l.max_len, l.len_source, l.layer,
                           l.layer_offset)]
    ELSE LET r == read_exact(d, p, n)
         IN IF ~r.ok
            THEN [ok |-> FALSE, bytes |-> << >>, pos |-> p, lim |-> l,
                  err |-> r.err]
            ELSE [ok |-> TRUE, bytes |-> r.bytes, pos |-> r.pos,
                  lim |-> [l EXCEPT !.read_len = @ + n], err |-> NoError]

\* read_limited without the call of start_layer
read_limited_layer_unset(l, d, p) ==
    LET r == limited_read_exact(l, d, p, 8)
    IN IF ~r.ok
       THEN [ok |-> FALSE, header |-> NoHeader, err |-> r.err, pos |-> r.pos,
             lim |-> r.lim]
       ELSE [ok |-> TRUE, header |-> read_decode(r.bytes), err |-> NoError,
             pos |-> r.pos, lim |-> r.lim]

\* Ipv6FragmentHeader::read_limited
read_limited(l, d, p) ==
    LET started == start_layer(l, "Ipv6FragHeader")
        r == limited_read_exact(started, d, p, 8)
    IN IF ~r.ok
       THEN [ok |-> FALSE, header |-> NoHeader, err |-> r.err, pos |-> r.pos,
             lim |-> r.lim]
       ELSE [ok |-> TRUE, header |-> read_decode(r.bytes), err |-> NoError,
             pos |-> r.pos, lim |-> r.lim]

\* write with a single write for write_all: what does not fit is dropped
\* and the call succeeds
write_once(h, w, cap) ==
    [ok |-> TRUE, buf |-> write_all(w, cap, to_bytes(h)).buf, err |-> NoError]

\* Ipv6FragmentHeader::write
write(h, w, cap) == write_all(w, cap, to_bytes(h))

\* max_check_u16
max_check_u16(value, max) == value <= max

RECURSIVE write_each(_, _, _)
\* the writes of a sequence of chunks in order, up to the first that fails
write_each(w, cap, chunks) ==
    IF chunks = << >> THEN [ok |-> TRUE, buf |-> w, err |-> NoError]
    ELSE LET r == write_all(w, cap, Head(chunks))
         IN IF ~r.ok THEN r ELSE write_each(r.buf, cap, Tail(chunks))

\* legacy Ipv6FragmentHeader::write: the range check of the offset, then
\* write_u8 four times and write_u32
legacy_write(h, w, cap) ==
    IF ~max_check_u16(h.fragment_offset, 8191)
    THEN [ok |-> FALSE, buf |-> w, err |-> ValueErrorU16TooLarge]
    ELSE LET buf == u16_to_be_bytes(h.fragment_offset)
         IN write_each(w, cap,
                << << h.next_header >>,
                   << 0 >>,
                   << BitOr(BitAnd(Shl8(buf[1], 3), 248),
                            BitAnd(Shr8(buf[2], 5), 7)) >>,
                   << BitOr(BitAnd(buf[2], 31),
                            IF h.more_fragments THEN 128 ELSE 0) >>,
                   u32_to_be_bytes(h.identification) >>)

-----------------------------------------------------------------------------
(* Inputs *)

\* next_header values of the headers that are encoded
NextHeaders == {6, 17}

\* fragment offsets of the headers that are encoded: the ends of the range
\* and the values around the byte and bit field boundaries
Offsets == {0, 1, 31, 32, 255, 256, 8191}

\* offsets a legacy header (a plain u16) can hold past the 13 bit range
LegacyOffsets == {8192, 65535}

\* identification values of the headers that are encoded
Identifications == {U32(0, 1), U32(0, 123), U32(65535, 65535)}

\* the headers a caller constructs with new
InputHeaders ==
    { new(nh, fo, mf, id) : nh \in NextHeaders, fo \in Offsets \cup LegacyOffsets,
                            mf \in BOOLEAN, id \in Identifications }

\* values of byte 0 of a received header
Byte0s == {0, 255}

\* values of the reserved byte 1 of a received header
Byte1s == {0, 255}

\* values of byte 2 of a received header
Byte2s == {0, 1, 8, 255}

\* values of byte 3 of a received header: the flag, the reserved bits 6 and
\* 5, and the low offset bits, alone and together
Byte3s == {0, 31, 32, 64, 96, 128, 255}

\* values of bytes 4 to 7 of a received header
IdBytes == { << 1, 2, 3, 4 >>, << 255, 255, 255, 255 >> }

\* values of the bytes that follow a header
DummyBytes == {0, 255}

\* the sequences of at most n bytes over DummyBytes
DummyData(n) == UNION { [1..k -> DummyBytes] : k \in 0..n }

\* 8 byte headers as they arrive
ReceivedHeaders ==
    { << b0, b1, b2, b3 >> \o id : b0 \in Byte0s, b1 \in Byte1s, b2 \in Byte2s,
                                   b3 \in Byte3s, id \in IdBytes }

\* a header and the bytes after it, cut at any length
Buffers(headers, dummies) ==
    UNION { { SliceTo(h \o d, n) : n \in 0..(LEN + Len(d)) } :
                h \in headers, d \in dummies }

\* the buffers that are decoded as slices
ReceivedBuffers == Buffers(ReceivedHeaders, DummyData(MaxDummy))

\* 8 byte headers as they arrive on a stream
StreamHeaders ==
    { << 17, b1, b2, b3, 1, 2, 3, 4 >> : b1 \in Byte1s, b2 \in Byte2s, b3 \in Byte3s }

\* the contents of the streams that are read
StreamBuffers ==
    Buffers(StreamHeaders, { [i \in 1..k |-> 0] : k \in 0..MaxDummy })

\* the most bytes a buffer holds
MaxData == MaxPrefix + LEN + MaxDummy

\* what a writer holds before a header is written to it
Prefixes == { [i \in 1..k |-> 0] : k \in 0..MaxPrefix }

-----------------------------------------------------------------------------
(* State machine *)

\* the position of a stream that is not open
NoStream == -1

\* a caller holds a header and a writer, or a received buffer that it
\* decodes as a slice, or a stream (Cursor::new(&buffer)) over received bytes
Init ==
    /\ \/ /\ hdr \in InputHeaders
          /\ data \in Prefixes
          /\ room \in {Unbounded} \cup Len(data)..MaxData
          /\ pos = NoStream
       \/ /\ hdr = NoHeader
          /\ data \in ReceivedBuffers
          /\ room = Len(data)
          /\ pos = NoStream
       \/ /\ hdr = NoHeader
          /\ data \in StreamBuffers
          /\ room = Len(data)
          /\ pos = 0
    /\ lim = NoLimitedReader
    /\ res = NoResult
    /\ error = NoHeld

\* the header held is a value of the current header type: its offset is an
\* IpFragOffset
HoldsHeader == hdr # NoHeader /\ hdr.fragment_offset <= MAX_U16

\* header.to_bytes()
ToBytes ==
    /\ HoldsHeader
    /\ res' = Result("to_bytes", TRUE, hdr, << >>, to_bytes(hdr), FALSE, NoError,
                     0, 0)
    /\ UNCHANGED <<error, hdr, data, room, pos, lim>>

\* header.is_fragmenting_payload(), of either generation
IsFragmentingPayload ==
    /\ hdr # NoHeader
    /\ res' = Result("is_fragmenting_payload", TRUE, hdr, << >>, << >>,
                     is_fragmenting_payload(hdr), NoError, 0, 0)
    /\ UNCHANGED <<error, hdr, data, room, pos, lim>>

\* header.header_len()
HeaderLen ==
    /\ hdr # NoHeader
    /\ res' = Result("header_len", TRUE, hdr, << >>, << >>, FALSE, NoError, 0,
                     header_len(hdr))
    /\ UNCHANGED <<error, hdr, data, room, pos, lim>>

\* header.write(&mut writer), the writer appending to data
Write ==
    /\ HoldsHeader
    /\ room = Unbounded => Len(data) <= MaxPrefix
    /\ LET r == write(hdr, data, room)
       IN /\ data' = r.buf
          /\ res' = Result("write", r.ok, hdr, << >>, to_bytes(hdr), FALSE, r.err,
                           Len(data), 0)
    /\ UNCHANGED <<error, hdr, room, pos, lim>>

\* the legacy header.write(&mut writer)
LegacyWrite ==
    /\ hdr # NoHeader
    /\ room = Unbounded => Len(data) <= MaxPrefix
    /\ LET r == legacy_write(hdr, data, room)
       IN /\ data' = r.buf
          /\ res' = Result("legacy_write", r.ok, hdr, << >>, << >>, FALSE, r.err,
                           Len(data), 0)
    /\ UNCHANGED <<error, hdr, room, pos, lim>>

\* buffer.extend(dummy_data) after a header was written, a byte at a time
Extend ==
    /\ room = Unbounded
    /\ Len(data) >= LEN
    /\ Len(data) < MaxData
    /\ \E b \in DummyBytes : data' = Append(data, b)
    /\ res' = NoResult
    /\ UNCHANGED <<error, hdr, room, pos, lim>>

\* Ipv6FragmentHeader::from_slice(&data)
FromSlice ==
    /\ pos = NoStream
    /\ LET r == from_slice(data)
       IN res' = Result("from_slice", r.ok, r.header, r.rest, data, FALSE, r.err,
                        0, 0)
    /\ UNCHANGED <<error, hdr, data, room, pos, lim>>

\* the legacy Ipv6FragmentHeader::read_from_slice(&data)
ReadFromSlice ==
    /\ pos = NoStream
    /\ LET r == read_from_slice(data)
       IN res' = Result("read_from_slice", r.ok, r.header, r.rest, data, FALSE,
                        r.err, 0, 0)
    /\ UNCHANGED <<error, hdr, data, room, pos, lim>>

\* Ipv6FragmentHeaderSlice::from_slice(&data) of the view under src/, then
\* every accessor of the view
SliceView ==
    /\ pos = NoStream
    /\ LET s == Slice_from_slice_legacy(data)
       IN res' = IF ~s.ok
                 THEN Result("slice", FALSE, NoHeader, << >>, << >>, FALSE, s.err,
                             0, 0)
                 ELSE Result("slice", TRUE,
                             Header(Slice_next_header(s.slice),
                                    Slice_fragment_offset(s.slice),
                                    Slice_more_fragments(s.slice),
                                    Slice_identification(s.slice)),
                             << >>, Slice_slice(s.slice),
                             Slice_is_fragmenting_payload(s.slice), NoError, 0, 0)
    /\ UNCHANGED <<error, hdr, data, room, pos, lim>>

\* reader.seek(SeekFrom::Start(p)) on the bare stream
Seek ==
    /\ pos # NoStream
    /\ ~lim.active
    /\ \E p \in 0..Len(data) : p # pos /\ pos' = p
    /\ res' = NoResult
    /\ UNCHANGED <<error, hdr, data, room, lim>>

\* Ipv6FragmentHeader::read(&mut reader) on the bare stream; what a failed
\* read_exact has consumed is up to the stream
Read ==
    /\ pos # NoStream
    /\ ~lim.active
    /\ LET r == read(data, pos)
       IN /\ res' = Result("read", r.ok, r.header, << >>, << >>, FALSE, r.err,
                           pos, 0)
          /\ IF r.ok THEN pos' = r.pos ELSE pos' \in {r.pos, Len(data)}
    /\ UNCHANGED <<error, hdr, data, room, lim>>

\* the legacy Ipv6FragmentHeader::read(&mut reader) on the bare stream
LegacyRead ==
    /\ pos # NoStream
    /\ ~lim.active
    /\ LET r == legacy_read(data, pos)
       IN /\ res' = Result("legacy_read", r.ok, r.header, << >>, << >>, FALSE,
                           r.err, pos, 0)
          /\ IF r.ok THEN pos' = r.pos ELSE pos' \in {r.pos, Len(data)}
    /\ UNCHANGED <<error, hdr, data, room, lim>>

\* LimitedReader::new(reader, max_len, len_source, layer_offset, layer): the
\* stream is wrapped at its current position
Limit ==
    /\ pos # NoStream
    /\ ~lim.active
    /\ \E m \in 0..(Len(data) - pos + 1) :
          lim' = LimitedReader(TRUE, m, "Slice", 0, "Ipv6Header", pos)
    /\ res' = NoResult
    /\ UNCHANGED <<error, hdr, data, room, pos>>

\* Ipv6FragmentHeader::read_limited(&mut reader)
ReadLimited ==
    /\ lim.active
    /\ LET r == read_limited(lim, data, pos)
       IN /\ res' = Result("read_limited", r.ok, r.header, << >>, << >>, FALSE,
                           r.err, pos, lim.max_len - lim.read_len)
          /\ lim' = r.lim
          /\ IF r.ok \/ r.err.kind = "LenError" THEN pos' = r.pos
             ELSE pos' \in {r.pos, Len(data)}
    /\ UNCHANGED <<error, hdr, data, room>>

Next ==
    \/ ToBytes
    \/ IsFragmentingPayload
    \/ HeaderLen
    \/ Write
    \/ LegacyWrite
    \/ Extend
    \/ FromSlice
    \/ ReadFromSlice
    \/ SliceView
    \/ Seek
    \/ Read
    \/ LegacyRead
    \/ Limit
    \/ ReadLimited

Spec == Init /\ [][Next]_vars

-----------------------------------------------------------------------------
(* The encoder over the whole range of the fragment offset *)

\* one header for every offset of 13 bits and either flag; the next header
\* and the identification vary with the offset over their ranges
EncodeHeaders ==
    { new(fo % 256, fo, mf, U32(65535 - fo, (fo * 7) % 65536)) :
          fo \in 0..MAX_U16, mf \in BOOLEAN }

\* a caller holds a header and an empty Vec
InitEncode ==
    /\ hdr \in EncodeHeaders
    /\ data = << >>
    /\ room = Unbounded
    /\ pos = NoStream
    /\ lim = NoLimitedReader
    /\ res = NoResult
    /\ error = NoHeld

NextEncode ==
    \/ ToBytes
    \/ Write
    \/ FromSlice

SpecEncode == InitEncode /\ [][NextEncode]_vars

-----------------------------------------------------------------------------
(* The decoders over every value of bytes 2 and 3 *)

\* 8 received bytes for every value of bytes 2 and 3; the reserved byte 1
\* takes the values 0, 85, 170 and 255, the identification follows bytes 2
\* and 3
DecodeBuffers ==
    { << 17, (b2 % 4) * 85, b2, b3, b3, b2, 255 - b2, 255 - b3 >> :
        b2 \in 0..255, b3 \in 0..255 }

\* the 8 bytes are decoded as a slice, from a stream, or from a stream
\* wrapped in a LimitedReader with room for the header
InitDecode ==
    /\ hdr = NoHeader
    /\ data \in DecodeBuffers
    /\ room = Len(data)
    /\ \/ /\ pos = NoStream
          /\ lim = NoLimitedReader
       \/ /\ pos = 0
          /\ lim = NoLimitedReader
       \/ /\ pos = 0
          /\ lim = LimitedReader(TRUE, LEN, "Slice", 0, "Ipv6Header", 0)
    /\ res = NoResult
    /\ error = NoHeld

NextDecode ==
    \/ SliceView
    \/ Read
    \/ ReadLimited

SpecDecode == InitDecode /\ [][NextDecode]_vars

-----------------------------------------------------------------------------
(* Decoding, then encoding what was decoded *)

\* let (result, rest) = Ipv6FragmentHeader::from_slice(&data).unwrap(): the
\* caller holds the header that the last from_slice returned
Unwrap ==
    /\ res.op = "from_slice"
    /\ res.ok
    /\ hdr # res.header
    /\ hdr' = res.header
    /\ UNCHANGED <<error, data, room, pos, lim, res>>

InitReencode ==
    /\ hdr = NoHeader
    /\ data \in DecodeBuffers
    /\ room = Len(data)
    /\ pos = NoStream
    /\ lim = NoLimitedReader
    /\ res = NoResult
    /\ error = NoHeld

NextReencode ==
    \/ FromSlice
    \/ Unwrap
    \/ ToBytes

SpecReencode == InitReencode /\ [][NextReencode]_vars

-----------------------------------------------------------------------------
(* The causes of the ipv4 slice errors *)

HeaderSliceErrors ==
    { HeaderSliceError_UnexpectedEndOfSlice(UnexpectedEndOfSliceError(m, a, l)) :
        m \in 0..MaxErrLen, a \in 0..MaxErrLen, l \in Layers }
    \cup { HeaderSliceError_Content(UnexpectedVersion(v)) : v \in 0..MaxVersion }

InitError ==
    /\ hdr = NoHeader
    /\ data = << >>
    /\ room = 0
    /\ pos = NoStream
    /\ lim = NoLimitedReader
    /\ res = NoResult
    /\ error \in { Held(e, FALSE, None) : e \in HeaderSliceErrors }

\* error.source()
Source ==
    /\ error.value # NoHeaderSliceError
    /\ error' = Held(error.value, TRUE, source(error.value))
    /\ UNCHANGED <<hdr, data, room, pos, lim, res>>

NextError == Source

SpecError == InitError /\ [][NextError]_vars

-----------------------------------------------------------------------------
(* Properties *)

\* the operations that decode a slice, and those that decode from a stream
SliceOps == {"from_slice", "read_from_slice", "slice"}
StreamOps == {"read", "legacy_read", "read_limited"}

\* the bytes the last operation had before it: the slice, or the stream from
\* the position at which the read began
Input == IF res.op \in StreamOps THEN SliceFrom(data, res.start) ELSE data

\* the fields of the 8 byte layout of the header, by position and weight:
\* byte 0, the top 13 bits of bytes 2 and 3, bit 7 of byte 3, bytes 4 to 7
Fields(b) ==
    Header(b[1],
           (b[3] \div 8) * 256 + (b[3] % 8) * 32 + (b[4] % 32),
           b[4] >= 128,
           U32(b[5] * 256 + b[6], b[7] * 256 + b[8]))

\* the 8 bytes b with the reserved byte 1 and the reserved bits 6 and 5 of
\* byte 3 cleared
ClearReserved(b) ==
    [b EXCEPT ![2] = 0, ![4] = (b[4] \div 128) * 128 + (b[4] % 32)]

\* C1: round trip. When the slice that from_slice decoded begins with the 8
\* bytes that encode the header held, from_slice succeeds and returns a
\* header equal to the one held in all four fields.
C1_RoundTrip ==
    ( /\ res.op = "from_slice"
      /\ HoldsHeader
      /\ Len(res.bytes) >= LEN
      /\ SliceTo(res.bytes, LEN) = to_bytes(hdr) )
    => /\ res.ok
       /\ res.header.next_header = hdr.next_header
       /\ res.header.fragment_offset = hdr.fragment_offset
       /\ res.header.more_fragments = hdr.more_fragments
       /\ res.header.identification = hdr.identification

\* a header with the largest offset and the flag set was written and
\* decoded again
C1_Witness ==
    /\ res.op = "from_slice"
    /\ res.ok
    /\ HoldsHeader
    /\ hdr.fragment_offset = MAX_U16
    /\ hdr.more_fragments
    /\ SliceTo(res.bytes, LEN) = to_bytes(hdr)

\* C2: truncation boundary. from_slice on a slice of L < 8 bytes returns no
\* header but a length error with required length 8, actual length L, the
\* layer of the IPv6 fragment header and layer start offset 0. (The legacy
\* read_from_slice returns no header either, and an error with required
\* length 8.)
C2_TruncationBoundary ==
    /\ (res.op = "from_slice" /\ Len(res.bytes) < 8)
       => /\ ~res.ok
          /\ res.header = NoHeader
          /\ res.err.kind = "LenError"
          /\ res.err.required_len = 8
          /\ res.err.len = Len(res.bytes)
          /\ res.err.layer = "Ipv6FragHeader"
          /\ res.err.layer_start_offset = 0
    /\ (res.op = "read_from_slice" /\ Len(res.bytes) < 8)
       => /\ ~res.ok
          /\ res.header = NoHeader
          /\ res.err.kind = "UnexpectedEndOfSlice"
          /\ res.err.required_len = 8

\* from_slice has failed on the first 3 bytes of a header
C2_Witness ==
    /\ res.op = "from_slice"
    /\ Len(res.bytes) = 3
    /\ res.err.kind = "LenError"

\* C3: from_slice (and the legacy read_from_slice) on a slice of n >= 8
\* bytes succeeds; the header has the fields laid out in bytes 0..8 and the
\* rest is the slice from index 8 on, of n - 8 bytes.
C3_HeaderAndRest ==
    (res.op \in {"from_slice", "read_from_slice"} /\ Len(res.bytes) >= 8)
    => /\ res.ok
       /\ res.header = Fields(SliceTo(res.bytes, 8))
       /\ Len(res.rest) = Len(res.bytes) - 8
       /\ \A i \in 1..Len(res.rest) : res.rest[i] = res.bytes[8 + i]

\* from_slice has decoded a slice with bytes after the header, which differ
\* from one another
C3_Witness ==
    /\ res.op = "from_slice"
    /\ res.ok
    /\ Len(res.bytes) = LEN + 2
    /\ res.rest = << 0, 255 >>

\* the header that the decoder named op returns for the 8 bytes b
DecodeBy(op, b) ==
    CASE op = "from_slice" -> from_slice(b).header
      [] op = "read_from_slice" -> read_from_slice(b).header
      [] op = "slice" -> Slice_to_header(Slice_from_slice_legacy(b).slice)
      [] op = "read" -> read(b, 0).header
      [] op = "legacy_read" -> legacy_read(b, 0).header
      [] op = "read_limited" -> read_decode(b)

\* C4: reserved bit tolerance. Every decoder (slice, slice view, stream)
\* given at least 8 bytes succeeds and returns the fields it returns for the
\* same bytes with byte 1 and bits 6 and 5 of byte 3 cleared; so two inputs
\* that differ only in those bits decode alike.
C4_ReservedBitTolerance ==
    ( /\ res.op \in SliceOps \cup StreamOps
      /\ Len(Input) >= 8
      /\ res.op = "read_limited" => res.arg >= 8 )
    => /\ res.ok
       /\ res.header = DecodeBy(res.op, ClearReserved(SliceTo(Input, 8)))

\* a header with byte 1 and both reserved bits of byte 3 set, and the flag
\* clear, has been decoded
C4_Witness ==
    /\ res.op \in SliceOps \cup StreamOps
    /\ res.ok
    /\ Len(Input) >= 8
    /\ Input[2] = 255
    /\ Input[4] = 96

\* C5: is_fragmenting_payload() is false exactly for offset 0 with the flag
\* clear, whatever the next header and the identification.
C5_IsFragmentingPayload ==
    res.op = "is_fragmenting_payload"
    => (res.flag = FALSE <=> (hdr.fragment_offset = 0 /\ hdr.more_fragments = FALSE))

\* is_fragmenting_payload() has answered false
C5_Witness ==
    /\ res.op = "is_fragmenting_payload"
    /\ res.flag = FALSE
    /\ hdr.fragment_offset = 0

\* C6: encode layout. With (hi, lo) the big endian bytes of the offset,
\* to_bytes returns next_header, 0, the low 5 bits of hi above the top 3
\* bits of lo, the low 5 bits of lo under the flag in bit 7, and the
\* identification in big endian order; byte 1 and bits 6 and 5 of byte 3
\* are 0.
C6_EncodeLayout ==
    res.op = "to_bytes"
    => LET hi == hdr.fragment_offset \div 256
           lo == hdr.fragment_offset % 256
           id == hdr.identification
       IN /\ res.bytes = << hdr.next_header,
                            0,
                            ((hi * 8) % 256) + (lo \div 32),
                            (lo % 32) + (IF hdr.more_fragments THEN 128 ELSE 0),
                            id.hi \div 256, id.hi % 256,
                            id.lo \div 256, id.lo % 256 >>
          /\ res.bytes[2] = 0
          /\ (res.bytes[4] \div 32) % 4 = 0

\* the header with offset 0x1234 and the flag set has been encoded: byte 2
\* is 0x91 and byte 3 is 0x94
C6_Witness ==
    /\ res.op = "to_bytes"
    /\ hdr.fragment_offset = 4660
    /\ hdr.more_fragments
    /\ res.bytes[3] = 145
    /\ res.bytes[4] = 148

\* the header of concrete vector 2
Vector2 == new(6, 8191, TRUE, U32(0, 1))

\* C7 as stated: concrete vector 2. Encoding the header {6, 8191, true, 1},
\* by to_bytes or by either write into the writer, gives the bytes
\* 6, 0, 0xFF, 0xFF, 0, 0, 0, 1.
C7_Vector2_AsStated ==
    /\ (res.op = "to_bytes" /\ hdr = Vector2)
       => res.bytes = << 6, 0, 255, 255, 0, 0, 0, 1 >>
    /\ (res.op \in {"write", "legacy_write"} /\ res.ok /\ hdr = Vector2)
       => SubSeq(data, res.start + 1, Len(data)) = << 6, 0, 255, 255, 0, 0, 0, 1 >>

\* C7, amended: concrete vector 2. Encoding the header {6, 8191, true, 1},
\* by to_bytes or by either write into the writer, gives the bytes
\* 6, 0, 0xFF, 0x9F, 0, 0, 0, 1: the reserved bits 6 and 5 of byte 3 are 0.
C7_Vector2 ==
    /\ (res.op = "to_bytes" /\ hdr = Vector2)
       => res.bytes = << 6, 0, 255, 159, 0, 0, 0, 1 >>
    /\ (res.op \in {"write", "legacy_write"} /\ res.ok /\ hdr = Vector2)
       => SubSeq(data, res.start + 1, Len(data)) = << 6, 0, 255, 159, 0, 0, 0, 1 >>

\* the header of concrete vector 2 has been encoded by to_bytes
C7_Witness ==
    /\ res.op = "to_bytes"
    /\ hdr = Vector2
    /\ res.bytes[3] = 255
    /\ res.bytes[4] = 159

\* C8: a successful stream read (of either generation, or through the
\* LimitedReader) leaves the cursor exactly header_len() = 8 bytes past the
\* position at which it began, and a successful write leaves the writer 8
\* bytes longer, whatever that position and whatever follows the header.
C8_AdvancesByHeaderLen ==
    /\ (res.op \in StreamOps /\ res.ok)
       => /\ pos - res.start = 8
          /\ header_len(res.header) = 8
    /\ (res.op \in {"write", "legacy_write"} /\ res.ok)
       => /\ Len(data) - res.start = 8
          /\ header_len(hdr) = 8

\* a header was read from position 1 of a stream that holds a byte after it
C8_Witness ==
    /\ res.op = "legacy_read"
    /\ res.ok
    /\ res.start = 1
    /\ pos = 9
    /\ Len(data) > pos

\* C9: read on a stream with fewer than 8 bytes left returns no header but
\* the I/O error of the stream, of kind UnexpectedEof, and never the length
\* error of the slice path.
C9_ShortStreamRead ==
    (res.op = "read" /\ Len(data) - res.start < 8)
    => /\ ~res.ok
       /\ res.header = NoHeader
       /\ res.err.kind = "Io"
       /\ res.err.io_kind = "UnexpectedEof"
       /\ res.err.kind # "LenError"

\* read has failed on a stream with 7 bytes left
C9_Witness ==
    /\ res.op = "read"
    /\ Len(data) - res.start = 7
    /\ ~res.ok

\* C10: read_limited on a LimitedReader with A < 8 bytes left under its
\* limit fails with a length error of required length 8, actual length A,
\* the layer of the IPv6 fragment header and the position of the cursor at
\* the start of the read as layer start offset; the layer of the reader is
\* the fragment header after every read_limited, failed or not.
C10_LimitedReadTruncation ==
    /\ (res.op = "read_limited" /\ res.arg < 8)
       => /\ ~res.ok
          /\ res.header = NoHeader
          /\ res.err.kind = "LenError"
          /\ res.err.required_len = 8
          /\ res.err.len = res.arg
          /\ res.err.layer = "Ipv6FragHeader"
          /\ res.err.layer_start_offset = res.start
    /\ res.op = "read_limited" => lim.layer = "Ipv6FragHeader"

\* after one header was read through the LimitedReader, a second
\* read_limited has failed with 2 bytes left, at offset 8
C10_Witness ==
    /\ res.op = "read_limited"
    /\ res.arg = 2
    /\ res.start = 8
    /\ res.err.kind = "LenError"
    /\ res.err.layer_start_offset = 8

\* the room left in the writer before the last write
RoomLeft == IF room = Unbounded THEN LEN ELSE room - res.start

\* C11: write, of either generation for a header whose offset has 13 bits,
\* is an exact write of the 8 encoded bytes. On a writer with room for 8
\* bytes or more it succeeds and appends exactly the bytes of to_bytes() to
\* what the writer held; on a writer with room for 0 to 7 bytes it returns
\* an error.
C11_ExactWrite ==
    (res.op \in {"write", "legacy_write"} /\ HoldsHeader)
    => /\ RoomLeft >= 8
          => /\ res.ok
             /\ Len(data) = res.start + 8
             /\ SliceFrom(data, res.start) = to_bytes(hdr)
             /\ SliceTo(data, res.start) \in Prefixes
       /\ RoomLeft < 8
          => /\ ~res.ok
             /\ res.err.kind = "Io"

\* write has failed on a writer with room for 7 bytes
C11_Witness ==
    /\ res.op = "write"
    /\ RoomLeft = 7
    /\ ~res.ok

\* C12: source() of a slice error returns a cause if and only if the error
\* is the Content variant, and the cause is then the header error it
\* contains; an UnexpectedEndOfSlice error has no cause, whatever its
\* lengths and its layer.
C12_SourceOnlyOfContent ==
    error.called
    => /\ error.cause.some <=> error.value.variant = "Content"
       /\ error.cause.some
          => /\ error.cause.cause = error.value.content
             /\ error.cause.cause.kind = "UnexpectedVersion"
       /\ error.value.variant = "UnexpectedEndOfSlice" => error.cause = None

\* source() has returned None for a truncation of the fragment header layer
\* with non-zero lengths
C12_Witness ==
    /\ error.called
    /\ error.value.variant = "UnexpectedEndOfSlice"
    /\ error.value.slice = UnexpectedEndOfSliceError(2, 1, "Ipv6FragHeader")
    /\ error.cause = None

\* the indices (from 1) at which the accessors of the view read it: bytes 0,
\* 2, 3 and 4..7
AccessorIndices == {1, 3, 4, 5, 6, 7, 8}

\* C14: the view that the checked constructor of Ipv6FragmentHeaderSlice
\* returns for an input of 8 bytes or more holds exactly 8 bytes, the first
\* 8 of the input; so every index an accessor reads is within the view.
C14_ViewIsFirstEightBytes ==
    (res.op = "slice" /\ Len(data) >= 8)
    => /\ res.ok
       /\ Len(res.bytes) = 8
       /\ \A i \in 1..8 : res.bytes[i] = data[i]
       /\ AccessorIndices \subseteq DOMAIN res.bytes

\* a view has been made of a buffer that holds more than the header
C14_Witness ==
    /\ res.op = "slice"
    /\ res.ok
    /\ Len(data) > 8
    /\ Len(res.bytes) = 8

\* C13: for every value of bytes 2 and 3 of an 8 byte input, the fragment
\* offset that read, read_limited and the fragment_offset accessor of the
\* view extract is in 0..8191: the unchecked constructor of the 13 bit
\* offset is only given values it allows. (A read_limited is one whose limit
\* leaves room for the 8 bytes.)
C13_OffsetWithin13Bits ==
    ( /\ res.op \in {"read", "read_limited", "slice"}
      /\ Len(Input) >= 8
      /\ res.op = "read_limited" => res.arg >= 8 )
    => /\ res.ok
       /\ res.header.fragment_offset \in 0..MAX_U16
       /\ res.header.fragment_offset = (Input[3] * 32) + (Input[4] % 32)

\* read_limited has decoded the largest offset from bytes 2 and 3 all ones
C13_Witness ==
    /\ res.op = "read_limited"
    /\ res.ok
    /\ Input[3] = 255
    /\ Input[4] = 255
    /\ res.header.fragment_offset = MAX_U16

\* C15: for every 8 byte input, the reserved bits set or not, the view's
\* is_fragmenting_payload(), computed from byte 2 and the masked byte 3,
\* returns what to_header().is_fragmenting_payload() returns on the header
\* made from the view.
C15_ViewAgreesWithHeader ==
    (res.op = "slice" /\ res.ok)
    => res.flag = is_fragmenting_payload(Slice_to_header(res.bytes))

\* the view of an input in which only the reserved bits are set is not
\* fragmenting the payload
C15_Witness ==
    /\ res.op = "slice"
    /\ res.ok
    /\ res.bytes[3] = 0
    /\ res.bytes[4] = 96
    /\ ~res.flag

\* the reserved bits of the 8 bytes b are zero: byte 1, and bits 6 and 5 of
\* byte 3
ReservedZero(b) == b[2] = 0 /\ (b[4] \div 32) % 4 = 0

\* C16: to_bytes of the header decoded from the 8 bytes b gives b with byte 1
\* replaced by 0 and byte 3 by (byte 3 AND 0x9F), the other bytes unchanged;
\* so it gives b exactly when the reserved bits of b are zero, and decoding
\* and encoding the result once more gives the same bytes again.
C16_ReencodeClearsReserved ==
    ( /\ res.op = "to_bytes"
      /\ pos = NoStream
      /\ Len(data) >= 8
      /\ from_slice(data).ok
      /\ hdr = from_slice(data).header )
    => LET b == SliceTo(data, 8)
           e == res.bytes
       IN /\ e = ClearReserved(b)
          /\ e = [b EXCEPT ![2] = 0, ![4] = BitAnd(b[4], 159)]
          /\ e = b <=> ReservedZero(b)
          /\ from_slice(e).ok
          /\ to_bytes(from_slice(e).header) = e

\* a header decoded from bytes with reserved bits set has been encoded to
\* other bytes than those
C16_Witness ==
    /\ res.op = "to_bytes"
    /\ pos = NoStream
    /\ Len(data) = 8
    /\ hdr = from_slice(data).header
    /\ data[2] = 255
    /\ data[4] = 255
    /\ res.bytes[2] = 0
    /\ res.bytes[4] = 159
    /\ res.bytes # data

====
